---- MODULE Spec2Model ----
(***************************************************************************)
(* Model of the tour list controller (components/tour-page-content.tsx),   *)
(* the list component that triggers load-more (components/tour-list.tsx)   *)
(* and the search box (components/tour-search.tsx).                        *)
(*                                                                         *)
(* React state lives in the variables named after the useState/useRef      *)
(* hooks.  `view` is the snapshot of the state captured by the closures of *)
(* the last committed render (loadMore, the TourList props).  Handlers of  *)
(* discrete events (clicks, submit) re-render synchronously, so they       *)
(* refresh `view`; continuations of awaited requests and the intersection  *)
(* observer callback only schedule a render, which is the action Render.   *)
(* A scheduled render is a task queued at once, a response a task queued   *)
(* after a network round trip: a continuation runs after the renders       *)
(* scheduled before it (Rendered).                                         *)
(***************************************************************************)
EXTENDS Integers, Sequences, FiniteSets, TLC

VARIABLES
  filters,          \* useState<FilterState>
  searchKeyword,    \* useState("")
  tours,            \* useState<TourItem[]>(initialTours)
  pageNo,           \* useState(1)
  hasMore,          \* useState(true)
  isLoadingMore,    \* useState(false)
  petInfoMap,       \* useState<Map<string, PetTourInfo | null>>
  isLoading,        \* useState(false)
  isLoadingPetInfo, \* useState(false)
  error,            \* useState<Error | null>
  isLoadingRef,     \* useRef(false)
  petInfoCache,     \* module-level Map shared by every controller
  view,             \* state captured by the closures of the last render
  initReq,          \* the fetchTours call in flight (0 or 1 element)
  moreReqs,         \* the loadMore calls in flight, in dispatch order
  toursSrc,         \* for each segment of tours, the request that produced it
  changes,          \* number of filter and search changes made so far
  loadMores,        \* number of loadMore requests dispatched so far
  lastOp,           \* the handler or continuation that ran last
  batches,          \* for each mounted controller, its fetchPetInfos call
  forwarded,        \* HomeMapView.currentTours, set through onToursChange
  api,              \* the callApi call of the remote-call layer
  coord             \* the last call of convertKATECToWGS84 and its result

vars == <<filters, searchKeyword, tours, pageNo, hasMore, isLoadingMore,
          petInfoMap, isLoading, isLoadingPetInfo, error, isLoadingRef,
          petInfoCache, view, initReq, moreReqs, toursSrc, changes, loadMores,
          lastOp, batches, forwarded, api, coord>>

----------------------------------------------------------------------------
(* Bounds of the model *)

\* number of filter and search changes the user makes
MaxChanges == 1
\* number of loadMore requests dispatched
MaxLoadMore == 2
\* number of records the remote source holds for area "2" beyond one page
ExtraArea2 == 0
\* number of records the remote source holds for area "1" beyond two pages
ExtraArea1 == 3

\* number of fetchPetInfos calls the controllers make
MaxBatchRuns == 2
\* number of uncached items a batch holds beyond the cap of the fan-out
ExtraBatch == 2

----------------------------------------------------------------------------
(* Program constants *)

PAGE_SIZE == 20
\* cap of the enrichment fan-out: itemsToFetch.slice(0, 20)
PET_FETCH_CAP == 20

NULL == "null"

Min(a, b) == IF a < b THEN a ELSE b

----------------------------------------------------------------------------
(* Strings are sequences of characters *)

SPACE == " "

RECURSIVE TrimStart(_)
TrimStart(s) ==
  IF s # <<>> /\ Head(s) = SPACE THEN TrimStart(Tail(s)) ELSE s

RECURSIVE TrimEnd(_)
TrimEnd(s) ==
  IF s # <<>> /\ s[Len(s)] = SPACE THEN TrimEnd(SubSeq(s, 1, Len(s) - 1)) ELSE s

\* String.prototype.trim
Trim(s) == TrimEnd(TrimStart(s))

\* String.prototype.includes
Includes(hay, needle) ==
  \E i \in 0..(Len(hay) - Len(needle)) : SubSeq(hay, i + 1, i + Len(needle)) = needle

----------------------------------------------------------------------------
(* The remote listing service: the records it holds.  Record k of an area  *)
(* has a category, a title collation key, a modification time and may or   *)
(* may not match the search keyword.                                       *)

Areas == <<"1", "2">>

AreaCount(a) == IF a = "1" THEN 2 * PAGE_SIZE + ExtraArea1 ELSE PAGE_SIZE + ExtraArea2

AreaBase(a) == IF a = "1" THEN 100 ELSE 200

\* a TourItem; title is the key localeCompare orders by, modifiedtime the
\* value of new Date(modifiedtime).getTime()
Item(a, k) ==
  [contentid     |-> AreaBase(a) + k,
   contenttypeid |-> IF k % 2 = 1 THEN "12" ELSE "14",
   title         |-> (k * 7) % 10,
   modifiedtime  |-> (k * 3) % 11]

MatchesKeyword(item) == item.contentid % 3 # 0

AreaItems(a) == [k \in 1..AreaCount(a) |-> Item(a, k)]

AllItems == AreaItems("1") \o AreaItems("2")

\* one page of a result list
PageOf(list, page) ==
  SubSeq(list, (page - 1) * PAGE_SIZE + 1, Min(page * PAGE_SIZE, Len(list)))

\* searchKeyword endpoint: keyword, optional areaCode, optional contentTypeId
searchKeywordApi(keyword, areaCode, contentTypeId, page) ==
  LET base == IF areaCode = NULL THEN AllItems ELSE AreaItems(areaCode)
      hit(it) == MatchesKeyword(it)
                 /\ (contentTypeId = NULL \/ it.contenttypeid = contentTypeId)
  IN PageOf(SelectSeq(base, hit), page)

\* areaBasedList endpoint: areaCode, optional contentTypeId
getAreaBasedList(areaCode, contentTypeId, page) ==
  LET hit(it) == contentTypeId = NULL \/ it.contenttypeid = contentTypeId
  IN PageOf(SelectSeq(AreaItems(areaCode), hit), page)

----------------------------------------------------------------------------
(* The remote enrichment service *)

NoInfo == [isNull |-> TRUE, chkpetleash |-> "", chkpetsize |-> <<>>]

Info(leash, size) == [isNull |-> FALSE, chkpetleash |-> leash, chkpetsize |-> size]

SMALL == <<"s">>
LARGE == <<"l">>

\* extractItems(response)[0] || null of a successful detailPetTour lookup
getDetailPetTour(contentid) ==
  CASE contentid % 4 = 0 -> NoInfo
    [] contentid % 4 = 1 -> Info("ganeung", SMALL \o <<",">> \o LARGE)
    [] contentid % 4 = 2 -> Info("bulga", SMALL)
    [] contentid % 8 = 3 -> Info("Y", LARGE)
    [] OTHER             -> Info("yes", <<>>)

----------------------------------------------------------------------------
(* Pure functions of tour-page-content.tsx *)

\* comparator of sortTours: negative when a goes before b
Compare(a, b, sort) ==
  IF sort = "name" THEN a.title - b.title
                   ELSE b.modifiedtime - a.modifiedtime

InsertSorted_Unstable(sorted, x, sort) ==
  CHOOSE r \in
    { LET k == Cardinality({i \in 1..Len(s) : Compare(s[i], y, sort) < 0})
      IN SubSeq(s, 1, k) \o <<y>> \o SubSeq(s, k + 1, Len(s)) :
        s \in {sorted}, y \in {x} } : TRUE

\* insertion of x behind the elements of the sorted list that do not go
\* after it (s and y are the values of sorted and x, computed once)
InsertSorted(sorted, x, sort) ==
  CHOOSE r \in
    { LET k == Cardinality({i \in 1..Len(s) : Compare(s[i], y, sort) <= 0})
      IN SubSeq(s, 1, k) \o <<y>> \o SubSeq(s, k + 1, Len(s)) :
        s \in {sorted}, y \in {x} } : TRUE

RECURSIVE SortPrefix(_, _, _)
SortPrefix(items, n, sort) ==
  IF n = 0 THEN <<>>
  ELSE InsertSorted(SortPrefix(items, n - 1, sort), items[n], sort)

\* [...tours].sort(comparator); Array.prototype.sort is stable: elements that
\* compare equal keep their order
sortTours(items, sort) ==
  CHOOSE r \in { SortPrefix(list, Len(list), sort) : list \in {items} } : TRUE

SeqToSet(s) == {s[i] : i \in 1..Len(s)}

\* the contentTypeId request parameter: contentTypeIds[0] when one is selected
TypeParam(f) == IF Len(f.contentTypeIds) > 0 THEN f.contentTypeIds[1] ELSE NULL

\* fetchToursPage, the listing request: endpoint choice and parameters; a
\* parameter left out of the request is NULL
ListingRequest(f, keyword, page) ==
  IF Trim(keyword) # <<>>
    THEN [endpoint      |-> "searchKeyword",
          keyword       |-> Trim(keyword),
          areaCode      |-> f.areaCode,
          contentTypeId |-> TypeParam(f),
          numOfRows     |-> PAGE_SIZE,
          pageNo        |-> page]
    ELSE [endpoint      |-> "areaBasedList",
          keyword       |-> <<>>,
          areaCode      |-> IF f.areaCode # NULL THEN f.areaCode ELSE "1",
          contentTypeId |-> TypeParam(f),
          numOfRows     |-> PAGE_SIZE,
          pageNo        |-> page]

\* extractItems of the response the service gives to a listing request
Respond(q) ==
  IF q.endpoint = "searchKeyword"
    THEN searchKeywordApi(q.keyword, q.areaCode, q.contentTypeId, q.pageNo)
    ELSE getAreaBasedList(q.areaCode, q.contentTypeId, q.pageNo)

\* fetchToursPage: the items of the page requested
ListingResponse(f, keyword, page) == Respond(ListingRequest(f, keyword, page))

\* fetchToursPage, the client-side category filter
FilterByType(items, f) ==
  IF Len(f.contentTypeIds) > 0
    THEN SelectSeq(items, LAMBDA it : it.contenttypeid \in SeqToSet(f.contentTypeIds))
    ELSE items

\* fetchPetInfos: the items without a cache entry
ItemsToFetch(items, cache) ==
  SelectSeq(items, LAMBDA it : it.contentid \notin DOMAIN cache)

LookupItems_NoCap(items, cache) == ItemsToFetch(items, cache)

\* fetchPetInfos: the items looked up, itemsToFetch.slice(0, 20)
LookupItems(items, cache) ==
  LET toFetch == ItemsToFetch(items, cache)
  IN SubSeq(toFetch, 1, Min(Len(toFetch), PET_FETCH_CAP))

\* fetchPetInfos: the identifiers looked up
LookupIds(items, cache) ==
  {LookupItems(items, cache)[i].contentid :
     i \in 1..Len(LookupItems(items, cache))}

\* fetchPetInfos: the map returned, given the results of the lookups and the
\* cache as it is when the batch completes
PetInfoResult(items, results, cache) ==
  LET ids == {items[i].contentid : i \in 1..Len(items)}
      dom == (DOMAIN results) \cup (ids \cap DOMAIN cache)
  IN [id \in dom |-> IF id \in DOMAIN results THEN results[id] ELSE cache[id]]

IsPetFriendly_Any(petInfo) == TRUE

\* "ganeung" stands for the Korean word for "allowed" the service returns
IsPetFriendly(petInfo) ==
  petInfo.chkpetleash \in {"ganeung", "Y", "yes"}

\* filterByPet
filterByPet(items, infoMap, petFriendly, petSizes) ==
  IF ~petFriendly THEN items
  ELSE SelectSeq(items, LAMBDA it :
         /\ it.contentid \in DOMAIN infoMap
         /\ ~infoMap[it.contentid].isNull
         /\ IsPetFriendly(infoMap[it.contentid])
         /\ (Len(petSizes) > 0 =>
               \E i \in 1..Len(petSizes) :
                 Includes(infoMap[it.contentid].chkpetsize, petSizes[i])))

\* history of the visible list: the filter and search value of the request
\* that produced a segment of it, and the length of the segment
Segment(items, f, keyword) ==
  [filters |-> f, searchKeyword |-> keyword, length |-> Len(items)]

EmptyMap == [id \in {} |-> NoInfo]

----------------------------------------------------------------------------
(* Inputs: the filter states and the search box inputs the user chooses    *)

DefaultFilters ==
  [areaCode |-> "1", contentTypeIds |-> <<>>, sort |-> "latest",
   petFriendly |-> FALSE, petSizes |-> <<>>]

FilterChoices ==
  { DefaultFilters,
    [DefaultFilters EXCEPT !.areaCode = "2"],
    [DefaultFilters EXCEPT !.areaCode = NULL, !.contentTypeIds = <<"12", "14">>,
                           !.sort = "name"],
    [DefaultFilters EXCEPT !.petFriendly = TRUE, !.petSizes = <<SMALL>>] }

KeywordInputs == { <<>>, <<"a">>, <<SPACE, "a", SPACE>> }

\* the lookups of one enrichment batch that fail
FailChoices(ids) == { {}, ids }

----------------------------------------------------------------------------
(* State *)

\* the two TourPageContent instances HomeMapView mounts
Instances == {"desktop", "mobile"}

\* no fetchPetInfos call has been made
IdleBatch ==
  [phase |-> "idle", items |-> <<>>, petFriendly |-> FALSE, petSizes |-> <<>>,
   fetch |-> <<>>, results |-> <<>>,
   petInfoMap |-> EmptyMap, kept |-> <<>>, runs |-> 0]

\* the tours effect that runs after a render: a list that is not empty is
\* handed to onToursChange, which is HomeMapView.handleToursChange
toursChangeEffect(list, currentTours) ==
  IF Len(list) > 0 THEN list ELSE currentTours

\* a JSON value: null, a number, a string, or an object with its members
JNull == [t |-> "null"]
JNum == [t |-> "number"]
JStr(v) == [t |-> "string", v |-> v]
JObj(members) == [t |-> "object", f |-> members]
\* the undefined value of a property that is not there
Undefined == [t |-> "undefined"]

\* no attempt of the call has settled
NoOutcome == [kind |-> "none", status |-> 0, text |-> <<>>]

\* an Error object: its class, statusCode (0 when the error has none), the
\* kind of its message with the value interpolated into it, responseData
TourApiError(message, detail, statusCode, responseData) ==
  [class |-> "TourApiError", statusCode |-> statusCode, message |-> message,
   detail |-> detail, responseData |-> responseData]

NoError ==
  [class |-> "none", statusCode |-> 0, message |-> "", detail |-> "",
   responseData |-> Undefined]

\* no call of callApi has been made
IdleCall ==
  [phase |-> "idle", hasKey |-> TRUE, retryCount |-> 0, attempts |-> 0,
   delays |-> <<>>, outcome |-> NoOutcome, error |-> NoError,
   data |-> Undefined, transient |-> TRUE]

\* an argument of convertKATECToWGS84: a string, or undefined
Arg(chars) == [given |-> TRUE, chars |-> chars]
Missing == [given |-> FALSE, chars |-> <<>>]

\* a number as the fraction num / den, den a power of ten
Num(num, den) == [nan |-> FALSE, num |-> num, den |-> den]
NaN == [nan |-> TRUE, num |-> 0, den |-> 1]

\* the results of convertKATECToWGS84: null, or { lng, lat }
NoPosition == [isNull |-> TRUE, lng |-> NaN, lat |-> NaN]
Position(lng, lat) == [isNull |-> FALSE, lng |-> lng, lat |-> lat]

\* no call of convertKATECToWGS84 has been made
NoConversion ==
  [called |-> FALSE, mapx |-> Missing, mapy |-> Missing,
   result |-> NoPosition, threw |-> FALSE]

\* what the closures of a render capture
Snapshot ==
  [isLoading        |-> isLoading,
   isLoadingPetInfo |-> isLoadingPetInfo,
   isLoadingMore    |-> isLoadingMore,
   hasMore          |-> hasMore,
   pageNo           |-> pageNo,
   error            |-> error,
   toursLength      |-> Len(tours)]

\* no render is pending
Rendered == view = Snapshot

Request(f, keyword) ==
  [filters |-> f, searchKeyword |-> keyword, phase |-> "list",
   items |-> <<>>, lookups |-> {}]

\* the component is mounted with the server-fetched first page of area "1";
\* the filter effect has run once and its fetchTours is in flight
Init ==
  /\ filters = DefaultFilters
  /\ searchKeyword = <<>>
  /\ tours = getAreaBasedList("1", NULL, 1)
  /\ toursSrc = << Segment(tours, DefaultFilters, <<>>) >>
  /\ changes = 0
  /\ loadMores = 0
  /\ pageNo = 1
  /\ hasMore = TRUE
  /\ isLoadingMore = FALSE
  /\ petInfoMap = EmptyMap
  /\ isLoading = TRUE
  /\ isLoadingPetInfo = FALSE
  /\ error = NULL
  /\ isLoadingRef = TRUE
  /\ petInfoCache = EmptyMap
  /\ initReq = << Request(DefaultFilters, <<>>) >>
  /\ moreReqs = <<>>
  /\ view = Snapshot
  /\ lastOp = "mount"
  /\ batches = [c \in Instances |-> IdleBatch]
  /\ forwarded = tours
  /\ api = IdleCall
  /\ coord = NoConversion

----------------------------------------------------------------------------
(* The filter/search effect *)

\* fetchTours up to its first await, run by the effect with the filters and
\* the search keyword of the new render
fetchTours(f, keyword) ==
  IF isLoadingRef
    THEN UNCHANGED <<isLoadingRef, isLoading, error, pageNo, hasMore, initReq>>
    ELSE /\ isLoadingRef' = TRUE
         /\ isLoading' = TRUE
         /\ error' = NULL
         /\ pageNo' = 1
         /\ hasMore' = TRUE
         /\ initReq' = << Request(f, keyword) >>

\* TourFilters: onFiltersChange(f) -> setFilters(f); the render re-creates
\* fetchToursPage, so the effect runs
setFilters(f) ==
  /\ changes < MaxChanges
  /\ changes' = changes + 1
  /\ filters' = f
  /\ fetchTours(f, searchKeyword)
  /\ UNCHANGED <<searchKeyword, tours, toursSrc, isLoadingMore, petInfoMap,
                 isLoadingPetInfo, petInfoCache, moreReqs, loadMores>>
  /\ view' = Snapshot'
  /\ lastOp' = "setFilters"
  /\ forwarded' = toursChangeEffect(tours', forwarded)
  /\ UNCHANGED <<batches, api, coord>>

\* TourSearch: handleSubmit calls onSearch(inputValue.trim()) when the trimmed
\* input is not empty and the form is not disabled by isLoading; handleClear
\* calls onSearch("").  onSearch is setSearchKeyword: an unchanged value
\* causes no render, a changed value re-runs the effect
setSearchKeyword(input) ==
  /\ Trim(input) # <<>> => ~view.isLoading
  /\ Trim(input) # searchKeyword
  /\ changes < MaxChanges
  /\ changes' = changes + 1
  /\ searchKeyword' = Trim(input)
  /\ fetchTours(filters, Trim(input))
  /\ UNCHANGED <<filters, tours, toursSrc, isLoadingMore, petInfoMap,
                 isLoadingPetInfo, petInfoCache, moreReqs, loadMores>>
  /\ view' = Snapshot'
  /\ lastOp' = "setSearchKeyword"
  /\ forwarded' = toursChangeEffect(tours', forwarded)
  /\ UNCHANGED <<batches, api, coord>>

----------------------------------------------------------------------------
(* fetchTours: the continuations of the initial load *)

FetchToursFinally_Missing(flag) == flag

\* finally { isLoadingRef.current = false; setIsLoading(false) }
FetchToursFinally(flag) == FALSE

\* fetchTours after fetchToursPage(1, false) returned items: sort, replace
\* the list, clear hasMore on a short page, then the finally block
FinishInitial(r, items) ==
  /\ tours' = sortTours(items, r.filters.sort)
  /\ toursSrc' = << Segment(items, r.filters, r.searchKeyword) >>
  /\ hasMore' = IF Len(items) < PAGE_SIZE THEN FALSE ELSE hasMore
  /\ isLoadingRef' = FetchToursFinally(isLoadingRef)
  /\ isLoading' = FetchToursFinally(isLoading)
  /\ initReq' = <<>>

\* the listing request of the initial load succeeds
fetchToursListingOk ==
  /\ Rendered
  /\ initReq # <<>>
  /\ initReq[1].phase = "list"
  /\ LET r == initReq[1]
         filteredItems == FilterByType(
             ListingResponse(r.filters, r.searchKeyword, 1), r.filters)
         lookups == LookupIds(filteredItems, petInfoCache)
         cached == PetInfoResult(filteredItems, EmptyMap, petInfoCache)
     IN CASE r.filters.petFriendly /\ lookups # {} ->
               \* fetchPetInfos starts its lookups and awaits them
               /\ isLoadingPetInfo' = TRUE
               /\ initReq' = << [r EXCEPT !.phase = "pet",
                                         !.items = filteredItems,
                                         !.lookups = lookups] >>
               /\ UNCHANGED <<tours, toursSrc, hasMore, isLoadingRef, isLoading, petInfoMap>>
          [] r.filters.petFriendly /\ lookups = {} ->
               \* every item is cached: fetchPetInfos returns the cached map
               /\ petInfoMap' = cached
               /\ isLoadingPetInfo' = FALSE
               /\ FinishInitial(r, filterByPet(filteredItems, cached,
                                    r.filters.petFriendly, r.filters.petSizes))
          [] OTHER ->
               /\ petInfoMap' = EmptyMap
               /\ UNCHANGED isLoadingPetInfo
               /\ FinishInitial(r, filteredItems)
  /\ UNCHANGED <<filters, searchKeyword, pageNo, isLoadingMore, error,
                 petInfoCache, view, moreReqs, changes, loadMores>>
  /\ lastOp' = "fetchToursListingOk"
  /\ UNCHANGED forwarded
  /\ UNCHANGED <<batches, api, coord>>

\* the lookups of fetchPetInfos settle; a failed lookup yields null
fetchPetInfosSettle ==
  /\ Rendered
  /\ initReq # <<>>
  /\ initReq[1].phase = "pet"
  /\ \E failed \in FailChoices(initReq[1].lookups) :
       LET r == initReq[1]
           results == [id \in r.lookups |->
                         IF id \in failed THEN NoInfo ELSE getDetailPetTour(id)]
           cache == [id \in (DOMAIN petInfoCache) \cup r.lookups |->
                       IF id \in r.lookups THEN results[id] ELSE petInfoCache[id]]
           petInfos == PetInfoResult(r.items, results, cache)
       IN /\ petInfoCache' = cache
          /\ petInfoMap' = petInfos
          /\ isLoadingPetInfo' = FALSE
          /\ FinishInitial(r, filterByPet(r.items, petInfos,
                               r.filters.petFriendly, r.filters.petSizes))
  /\ UNCHANGED <<filters, searchKeyword, pageNo, isLoadingMore, error,
                 view, moreReqs, changes, loadMores>>
  /\ lastOp' = "fetchPetInfosSettle"
  /\ UNCHANGED forwarded
  /\ UNCHANGED <<batches, api, coord>>

\* the listing request of the initial load fails: catch and finally
fetchToursFail ==
  /\ Rendered
  /\ initReq # <<>>
  /\ initReq[1].phase = "list"
  /\ error' = "Error"
  /\ isLoadingRef' = FetchToursFinally(isLoadingRef)
  /\ isLoading' = FetchToursFinally(isLoading)
  /\ initReq' = <<>>
  /\ UNCHANGED <<filters, searchKeyword, tours, toursSrc, pageNo, hasMore, isLoadingMore,
                 petInfoMap, isLoadingPetInfo, petInfoCache, view, moreReqs, changes, loadMores>>
  /\ lastOp' = "fetchToursFail"
  /\ UNCHANGED forwarded
  /\ UNCHANGED <<batches, api, coord>>

----------------------------------------------------------------------------
(* loadMore *)

\* TourList: the sentinel element is rendered and the observer is enabled
enabled ==
  /\ view.error = NULL
  /\ ~(view.isLoading \/ view.isLoadingPetInfo)
  /\ view.hasMore
  /\ ~view.isLoadingMore
  /\ view.toursLength > 0

RemoveAt(s, i) == SubSeq(s, 1, i - 1) \o SubSeq(s, i + 1, Len(s))

\* const nextPage = pageNo + 1
NextPage(p) == p + 1

AppendTours_Replace(prev, sortedNewItems) == sortedNewItems

\* setTours((prev) => [...prev, ...sortedNewItems])
AppendTours(prev, sortedNewItems) == prev \o sortedNewItems

LoadMoreFinally_Missing(flag) == flag

\* finally { setIsLoadingMore(false) }
LoadMoreFinally(flag) == FALSE

fetchToursPageMore_PetFiltered(r) ==
  filterByPet(FilterByType(ListingResponse(r.filters, r.searchKeyword, r.page),
                           r.filters),
              petInfoMap, r.filters.petFriendly, r.filters.petSizes)

\* fetchToursPage(nextPage, true): the category filter is applied, the pet
\* step is left out
fetchToursPageMore(r) ==
  FilterByType(ListingResponse(r.filters, r.searchKeyword, r.page), r.filters)

\* the observer callback calls loadMore of the last render
loadMore ==
  /\ enabled
  /\ loadMores < MaxLoadMore
  /\ IF view.isLoading \/ view.isLoadingMore \/ ~view.hasMore
       THEN UNCHANGED <<isLoadingMore, moreReqs, loadMores>>
       ELSE /\ isLoadingMore' = TRUE
            /\ loadMores' = loadMores + 1
            /\ moreReqs' = Append(moreReqs,
                 [filters |-> filters, searchKeyword |-> searchKeyword,
                  page |-> NextPage(view.pageNo)])
  /\ UNCHANGED <<filters, searchKeyword, tours, toursSrc, pageNo, hasMore, petInfoMap,
                 isLoading, isLoadingPetInfo, error, isLoadingRef,
                 petInfoCache, view, initReq, changes>>
  /\ lastOp' = "loadMore"
  /\ UNCHANGED forwarded
  /\ UNCHANGED <<batches, api, coord>>

\* fetchToursPage(nextPage, true) returned: append, advance the cursor
loadMoreOk(i) ==
  /\ Rendered
  /\ i \in 1..Len(moreReqs)
  /\ LET r == moreReqs[i]
         newItems == fetchToursPageMore(r)
     IN /\ tours' = AppendTours(tours, sortTours(newItems, r.filters.sort))
        /\ toursSrc' = Append(toursSrc, Segment(newItems, r.filters, r.searchKeyword))
        /\ pageNo' = r.page
        /\ hasMore' = IF Len(newItems) < PAGE_SIZE THEN FALSE ELSE hasMore
  /\ isLoadingMore' = LoadMoreFinally(isLoadingMore)
  /\ moreReqs' = RemoveAt(moreReqs, i)
  /\ UNCHANGED <<filters, searchKeyword, petInfoMap, isLoading,
                 isLoadingPetInfo, error, isLoadingRef, petInfoCache, view,
                 initReq, changes, loadMores>>
  /\ lastOp' = "loadMoreOk"
  /\ UNCHANGED forwarded
  /\ UNCHANGED <<batches, api, coord>>

\* fetchToursPage(nextPage, true) threw: catch and finally
loadMoreFail(i) ==
  /\ Rendered
  /\ i \in 1..Len(moreReqs)
  /\ isLoadingMore' = LoadMoreFinally(isLoadingMore)
  /\ moreReqs' = RemoveAt(moreReqs, i)
  /\ UNCHANGED <<filters, searchKeyword, tours, toursSrc, pageNo, hasMore, petInfoMap,
                 isLoading, isLoadingPetInfo, error, isLoadingRef,
                 petInfoCache, view, initReq, changes, loadMores>>
  /\ lastOp' = "loadMoreFail"
  /\ UNCHANGED forwarded
  /\ UNCHANGED <<batches, api, coord>>

----------------------------------------------------------------------------
(* The retry button of the error panel, and rendering *)

retry ==
  /\ view.error # NULL
  /\ error' = NULL
  /\ pageNo' = 1
  /\ hasMore' = TRUE
  /\ UNCHANGED <<filters, searchKeyword, tours, toursSrc, isLoadingMore, petInfoMap,
                 isLoading, isLoadingPetInfo, isLoadingRef, petInfoCache,
                 initReq, moreReqs, changes, loadMores>>
  /\ view' = Snapshot'
  /\ lastOp' = "retry"
  /\ forwarded' = toursChangeEffect(tours', forwarded)
  /\ UNCHANGED <<batches, api, coord>>

\* the render scheduled by the state updates of a continuation
Render ==
  /\ ~Rendered
  /\ view' = Snapshot
  /\ UNCHANGED <<filters, searchKeyword, tours, toursSrc, pageNo, hasMore, isLoadingMore,
                 petInfoMap, isLoading, isLoadingPetInfo, error, isLoadingRef,
                 petInfoCache, initReq, moreReqs, changes, loadMores>>
  /\ lastOp' = "Render"
  /\ forwarded' = toursChangeEffect(tours', forwarded)
  /\ UNCHANGED <<batches, api, coord>>

Next ==
  \/ \E f \in FilterChoices : setFilters(f)
  \/ \E input \in KeywordInputs : setSearchKeyword(input)
  \/ fetchToursListingOk
  \/ fetchPetInfosSettle
  \/ fetchToursFail
  \/ loadMore
  \/ \E i \in 1..Len(moreReqs) : loadMoreOk(i)
  \/ \E i \in 1..Len(moreReqs) : loadMoreFail(i)
  \/ retry
  \/ Render

Spec == Init /\ [][Next]_vars

\* every remote call returns or fails in the end, and a scheduled render is
\* committed
LiveSpec ==
  /\ Spec
  /\ WF_vars(fetchToursFail \/ fetchToursListingOk)
  /\ WF_vars(fetchPetInfosSettle)
  /\ WF_vars(Render)

----------------------------------------------------------------------------
(* fetchPetInfos called by the two controllers HomeMapView mounts.  The    *)
(* calls share petInfoCache; each lookup of a batch settles on its own, so *)
(* the lookups of two batches interleave.  The lookups of one batch are    *)
(* taken in the order they were issued.                                    *)

controllerVars ==
  <<filters, searchKeyword, tours, pageNo, hasMore, isLoadingMore,
    petInfoMap, isLoading, isLoadingPetInfo, error, isLoadingRef, view,
    initReq, moreReqs, toursSrc, changes, loadMores, forwarded>>

\* the filtered items fetchToursPage hands to its pet step, and the pet
\* filter of the filter state
PetInputs ==
  LET page == [k \in 1..(PET_FETCH_CAP + ExtraBatch) |-> Item("1", k)]
  IN { [items |-> page, petFriendly |-> TRUE, petSizes |-> <<>>],
       [items |-> << page[PET_FETCH_CAP + 1], page[1], page[1], page[7] >>,
        petFriendly |-> TRUE, petSizes |-> <<SMALL>>],
       [items |-> << page[1], page[2], page[3] >>,
        petFriendly |-> TRUE, petSizes |-> <<LARGE, <<"m">> >>],
       [items |-> SubSeq(page, 1, 4), petFriendly |-> FALSE, petSizes |-> <<>>] }

\* the lookups the service can fail
CanFail(contentid) == contentid % PET_FETCH_CAP = 1

RECURSIVE SumRuns(_)
SumRuns(cs) ==
  IF cs = {} THEN 0
  ELSE LET c == CHOOSE x \in cs : TRUE
       IN batches[c].runs + SumRuns(cs \ {c})

\* the fetchPetInfos calls made so far
BatchRuns == SumRuns(Instances)

\* results.forEach(({ contentId, petInfo }) => petInfoMap.set(contentId, petInfo))
ResultMap(fetch, results) ==
  [id \in {fetch[i].contentid : i \in 1..Len(results)} |->
     LET last == CHOOSE i \in 1..Len(results) :
                   /\ fetch[i].contentid = id
                   /\ \A j \in (i + 1)..Len(results) : fetch[j].contentid # id
     IN results[last]]

\* petInfoCache.set(contentid, petInfo)
CacheSet(cache, contentid, petInfo) ==
  [id \in (DOMAIN cache) \cup {contentid} |->
     IF id = contentid THEN petInfo ELSE cache[id]]

\* the catch block of one lookup: the result of a failed lookup
LookupFailed_Throws(contentid) == [isNull |-> FALSE, chkpetleash |-> "Error", chkpetsize |-> <<>>]

LookupFailed(contentid) == NoInfo

\* fetchToursPage, the pet step after fetchPetInfos returned
filterStep(b, petInfos) ==
  [b EXCEPT !.phase = "returned",
            !.fetch = <<>>,
            !.results = <<>>,
            !.petInfoMap = petInfos,
            !.kept = filterByPet(b.items, petInfos, b.petFriendly, b.petSizes)]

\* fetchToursPage reaches its pet step: without the pet filter the items are
\* returned as they are; with it fetchPetInfos starts the lookups of the
\* items that have no cache entry, or returns the cached map at once
fetchPetInfos(c, in) ==
  /\ batches[c].phase # "fetching"
  /\ BatchRuns < MaxBatchRuns
  /\ LET fetch == LookupItems(in.items, petInfoCache)
         b == [IdleBatch EXCEPT !.items = in.items,
                                !.petFriendly = in.petFriendly,
                                !.petSizes = in.petSizes,
                                !.runs = batches[c].runs + 1]
     IN batches' = [batches EXCEPT ![c] =
          IF ~in.petFriendly
            THEN [b EXCEPT !.phase = "returned", !.kept = in.items]
          ELSE IF Len(fetch) = 0
            THEN filterStep(b, PetInfoResult(in.items, EmptyMap, petInfoCache))
          ELSE [b EXCEPT !.phase = "fetching", !.fetch = fetch]]
  /\ UNCHANGED petInfoCache
  /\ UNCHANGED controllerVars
  /\ UNCHANGED <<api, coord>>
  /\ lastOp' = "fetchPetInfos"

\* one lookup of the batch of controller c settles
lookupSettle(c, ok) ==
  /\ batches[c].phase = "fetching"
  /\ Len(batches[c].results) < Len(batches[c].fetch)
  /\ LET b == batches[c]
         contentid == b.fetch[Len(b.results) + 1].contentid
         petInfo == IF ok THEN getDetailPetTour(contentid)
                          ELSE LookupFailed(contentid)
     IN /\ ~ok => CanFail(contentid)
        /\ petInfoCache' = CacheSet(petInfoCache, contentid, petInfo)
        /\ batches' = [batches EXCEPT ![c].results = Append(b.results, petInfo)]
  /\ UNCHANGED controllerVars
  /\ UNCHANGED <<api, coord>>
  /\ lastOp' = IF ok THEN "lookupOk" ELSE "lookupFail"

\* Promise.all resolved: fetchPetInfos builds the map it returns and
\* fetchToursPage filters by it
fetchPetInfosReturn(c) ==
  /\ batches[c].phase = "fetching"
  /\ Len(batches[c].results) = Len(batches[c].fetch)
  /\ LET b == batches[c]
     IN batches' = [batches EXCEPT ![c] =
          filterStep(b, PetInfoResult(b.items, ResultMap(b.fetch, b.results),
                                      petInfoCache))]
  /\ UNCHANGED petInfoCache
  /\ UNCHANGED controllerVars
  /\ UNCHANGED <<api, coord>>
  /\ lastOp' = "fetchPetInfosReturn"

PetNext ==
  \/ \E c \in Instances, in \in PetInputs : fetchPetInfos(c, in)
  \/ \E c \in Instances, ok \in BOOLEAN : lookupSettle(c, ok)
  \/ \E c \in Instances : fetchPetInfosReturn(c)

PetSpec == Init /\ [][PetNext]_vars

----------------------------------------------------------------------------
(* Properties *)

\* the value the filter and the search box hold now
Current(r) == r.filters = filters /\ r.searchKeyword = searchKeyword

\* no request is in flight and no loading flag is set
Settled ==
  /\ initReq = <<>>
  /\ moreReqs = <<>>
  /\ ~isLoading
  /\ ~isLoadingMore

\* the step completes a successful initial load
InitialLoadSucceeds ==
  /\ initReq # <<>>
  /\ initReq' = <<>>
  /\ lastOp' \in {"fetchToursListingOk", "fetchPetInfosSettle"}

\* the step is the continuation of load-more request i
Resolves(i, op) ==
  /\ lastOp' = op
  /\ i \in 1..Len(moreReqs)
  /\ moreReqs' = RemoveAt(moreReqs, i)

\* C1: once loading has settled without an error, the result of the initial
\* load that the visible list starts with was computed for the filter and
\* search value that are current; a result computed for an earlier value is
\* never the final list.
C1_OnlyLatestFilterVisible ==
  (Settled /\ error = NULL /\ toursSrc[1].length > 0) => Current(toursSrc[1])

\* C2: at most one page-producing request is in flight, and isLoading and
\* isLoadingMore are never both true.
C2_OneRequestInFlight ==
  /\ Len(initReq) + Len(moreReqs) <= 1
  /\ ~(isLoading /\ isLoadingMore)

\* C3: a call of loadMore made while hasMore is false or while an initial
\* load or another load-more is in flight issues no request and changes no
\* state.
C3_LoadMoreNoOpWhileLoading ==
  [][ (lastOp' = "loadMore" /\ (~hasMore \/ initReq # <<>> \/ moreReqs # <<>>))
        => UNCHANGED <<moreReqs, loadMores, isLoadingMore, tours, pageNo,
                       hasMore, isLoading, error>> ]_vars

\* C4: every change of the filter state or of the search term resets the
\* page cursor to 1, resets hasMore to true and starts an initial load for
\* the new value.
C4_ChangeStartsInitialLoad ==
  [][ (filters' # filters \/ searchKeyword' # searchKeyword)
        => /\ pageNo' = 1
           /\ hasMore'
           /\ isLoading'
           /\ initReq' = << Request(filters', searchKeyword') >> ]_vars

\* C5: the result of a load-more request dispatched under an earlier filter
\* or search value is not applied: the visible list, the page cursor and
\* hasMore stay as they are when it resolves.
C5_StaleLoadMoreDiscarded ==
  [][ \A i \in 1..Len(moreReqs) :
        (Resolves(i, "loadMoreOk") /\ ~Current(moreReqs[i]))
          => UNCHANGED <<tours, pageNo, hasMore>> ]_vars

\* C6: a successful initial load replaces the visible list by the sorted
\* result set, and leaves hasMore false exactly when the page the listing
\* service returned held fewer than PAGE_SIZE records.
C6_HasMoreFromReturnedPage ==
  [][ InitialLoadSucceeds
        => /\ toursSrc' = << [filters |-> initReq[1].filters,
                              searchKeyword |-> initReq[1].searchKeyword,
                              length |-> Len(tours')] >>
           /\ hasMore' = ~(Len(ListingResponse(initReq[1].filters,
                                 initReq[1].searchKeyword, 1)) < PAGE_SIZE) ]_vars

\* C7: a load-more started by a render that shows page cursor p requests
\* page p + 1; when it succeeds the list shown before is a prefix of the new
\* list and the page cursor is the page requested.
C7_LoadMoreAppendsNextPage ==
  [][ /\ loadMores' # loadMores
        => /\ Len(moreReqs') = Len(moreReqs) + 1
           /\ moreReqs'[Len(moreReqs')].page = view.pageNo + 1
      /\ \A i \in 1..Len(moreReqs) :
           Resolves(i, "loadMoreOk")
             => /\ pageNo' = moreReqs[i].page
                /\ Len(tours') >= Len(tours)
                /\ SubSeq(tours', 1, Len(tours)) = tours ]_vars

\* a load-more started at page cursor 2 has appended page 3 to pages 1 and 2
C7_Witness ==
  /\ lastOp = "loadMoreOk"
  /\ pageNo = 3
  /\ Len(toursSrc) = 3
  /\ Len(tours) > 2 * PAGE_SIZE

\* C8: a failed load-more leaves the visible list, the page cursor and
\* hasMore as they were and clears isLoadingMore.
C8_FailedLoadMoreKeepsList ==
  [][ \A i \in 1..Len(moreReqs) :
        Resolves(i, "loadMoreFail")
          => /\ UNCHANGED <<tours, pageNo, hasMore>>
             /\ ~isLoadingMore' ]_vars

\* after a failed load-more for page 2, load-more is triggered again for
\* page 2
C8_Witness ==
  /\ lastOp = "loadMore"
  /\ changes = 0
  /\ loadMores = 2
  /\ pageNo = 1
  /\ Len(toursSrc) = 1
  /\ Len(moreReqs) = 1
  /\ moreReqs[1].page = 2

\* C9: the retry action of the error panel re-enters the initial-loading
\* state and dispatches the page-1 request for the current filter and
\* search value.
C9_RetryRefetches ==
  [][ lastOp' = "retry"
        => /\ isLoading'
           /\ initReq' = << Request(filters, searchKeyword) >> ]_vars

\* C10: once the error of a failed initial load has been dismissed by the
\* retry action, no list from before the failure is shown: the list is
\* empty or hidden by the loading state of a new initial load.
C10_NoStaleListAfterFailure ==
  lastOp = "retry" => (tours = <<>> \/ isLoading)

\* C11: every fetch failure, of an initial load or of a load-more, leaves
\* the current error set.
C11_FailureSetsError ==
  [][ lastOp' \in {"fetchToursFail", "loadMoreFail"} => error' # NULL ]_vars

\* C12: the visible list never holds two records with the same identifier.
C12_NoDuplicateIdentifiers ==
  Cardinality({tours[i].contentid : i \in 1..Len(tours)}) = Len(tours)

\* neighbours of the list are in the order of the sort mode
IsOrdered(list, sort) ==
  \A i \in 1..(Len(list) - 1) :
    IF sort = "name" THEN list[i].title <= list[i + 1].title
                     ELSE list[i].modifiedtime >= list[i + 1].modifiedtime

\* position of a record in the page the listing service returned
PagePosition(page, contentid) ==
  CHOOSE i \in 1..Len(page) : page[i].contentid = contentid

\* C19: a successful initial load leaves a list that holds each record of
\* the computed result set once, ordered by modification time descending
\* under sort mode "latest" and by title ascending under "name"; records
\* that compare equal keep the order the service returned them in.
C19_InitialLoadSorted ==
  [][ InitialLoadSucceeds =>
        LET r == initReq[1]
            page == ListingResponse(r.filters, r.searchKeyword, 1)
            key(it) == IF r.filters.sort = "name" THEN it.title
                                                  ELSE it.modifiedtime
        IN /\ Len(tours') = toursSrc'[1].length
           /\ \A i \in 1..Len(tours') : \E k \in 1..Len(page) : page[k] = tours'[i]
           /\ \A i, j \in 1..Len(tours') :
                i < j => /\ tours'[i].contentid # tours'[j].contentid
                         /\ IF r.filters.sort = "name"
                              THEN key(tours'[i]) <= key(tours'[j])
                              ELSE key(tours'[i]) >= key(tours'[j])
                         /\ key(tours'[i]) = key(tours'[j])
                              => PagePosition(page, tours'[i].contentid)
                                   < PagePosition(page, tours'[j].contentid) ]_vars

\* an initial load filtered by category and sorted by name has replaced the
\* list by a full page that holds records with equal titles
C19_Witness ==
  /\ lastOp = "fetchToursListingOk"
  /\ filters.sort = "name"
  /\ toursSrc = << Segment(tours, filters, searchKeyword) >>
  /\ Len(tours) = PAGE_SIZE
  /\ \E i \in 1..(Len(tours) - 1) : tours[i].title = tours[i + 1].title

\* C20: after a successful load-more the whole visible list is ordered by
\* the active sort mode, across the boundaries of the pages appended.
C20_WholeListSorted ==
  lastOp = "loadMoreOk" => IsOrdered(tours, filters.sort)

\* the page requests in flight, with the page number each asks for
PageRequests ==
  {<<initReq[i], 1>> : i \in 1..Len(initReq)}
    \cup {<<moreReqs[i], moreReqs[i].page>> : i \in 1..Len(moreReqs)}

\* C17: every page request in flight uses the keyword-search endpoint
\* exactly when the trimmed search term is not empty, and carries the active
\* region filter (null for all regions), the page number asked for and the
\* page size.
C17_RequestCarriesRegion ==
  \A pr \in PageRequests :
    LET r == pr[1]
        q == ListingRequest(r.filters, r.searchKeyword, pr[2])
    IN /\ (q.endpoint = "searchKeyword") <=> (Trim(r.searchKeyword) # <<>>)
       /\ q.endpoint \in {"searchKeyword", "areaBasedList"}
       /\ q.areaCode = r.filters.areaCode
       /\ q.pageNo = pr[2]
       /\ q.numOfRows = PAGE_SIZE

\* C18: with more than one category selected, a successful initial load
\* without the pet filter shows exactly the records of the page the service
\* holds for the region and the search term whose category is one of the
\* selected ones.
C18_EverySelectedCategory ==
  [][ ( /\ InitialLoadSucceeds
        /\ Len(initReq[1].filters.contentTypeIds) > 1
        /\ ~initReq[1].filters.petFriendly )
        => LET r == initReq[1]
               q == ListingRequest(r.filters, r.searchKeyword, 1)
               held == Respond([q EXCEPT !.contentTypeId = NULL])
           IN SeqToSet(tours') =
                {x \in SeqToSet(held) :
                   x.contenttypeid \in SeqToSet(r.filters.contentTypeIds)} ]_vars

\* the step starts the lookups of a batch of controller c
StartsBatch(c) ==
  /\ batches[c].phase # "fetching"
  /\ batches'[c].phase = "fetching"

\* the step returns the map of a batch of controller c with lookups
ReturnsBatch(c) ==
  /\ batches[c].phase = "fetching"
  /\ batches'[c].phase = "returned"

\* the identifiers of a list of items
Ids(items) == {items[i].contentid : i \in 1..Len(items)}

\* C13: a batch issues at most 20 lookups, all for identifiers without a
\* cache entry when the batch starts; an item that gets no lookup is in the
\* returned map only if the cache holds an entry for it, and then with that
\* entry.
C13_AtMostTwentyLookups ==
  [][ \A c \in Instances :
        /\ StartsBatch(c) =>
             /\ Len(batches'[c].fetch) <= 20
             /\ Ids(batches'[c].fetch) \subseteq Ids(batches'[c].items)
             /\ Ids(batches'[c].fetch) \cap DOMAIN petInfoCache = {}
        /\ Len(batches'[c].results) <= 20
        /\ ReturnsBatch(c) =>
             \A id \in (DOMAIN batches'[c].petInfoMap) \ Ids(batches[c].fetch) :
               /\ id \in DOMAIN petInfoCache
               /\ batches'[c].petInfoMap[id] = petInfoCache[id] ]_vars

\* a batch of more than 20 uncached items has returned a map that holds its
\* first 20 items and the item behind them another batch cached, and lacks
\* the item nobody looked up
C13_Witness ==
  \E c \in Instances :
    LET b == batches[c]
    IN /\ b.phase = "returned"
       /\ Len(b.items) > 20
       /\ \A i \in 1..20 : b.items[i].contentid \in DOMAIN b.petInfoMap
       /\ b.items[21].contentid \in DOMAIN b.petInfoMap
       /\ b.items[22].contentid \notin DOMAIN b.petInfoMap

\* C14: a failing lookup leaves its batch running, records the no-data
\* marker for its identifier in the cache and as its result, and changes no
\* other cache entry, no other result and no other batch; the map the batch
\* returns holds for each identifier the result of its last lookup.
C14_FailedLookupIsNoData ==
  [][ \A c \in Instances :
        /\ (lastOp' = "lookupFail" /\ batches'[c] # batches[c]) =>
             LET b == batches[c]
                 id == b.fetch[Len(b.results) + 1].contentid
             IN /\ batches'[c] = [b EXCEPT !.results = Append(b.results, NoInfo)]
                /\ id \in DOMAIN petInfoCache'
                /\ petInfoCache'[id] = NoInfo
                /\ \A other \in (DOMAIN petInfoCache) \ {id} :
                     /\ other \in DOMAIN petInfoCache'
                     /\ petInfoCache'[other] = petInfoCache[other]
                /\ \A d \in Instances \ {c} : batches'[d] = batches[d]
        /\ ReturnsBatch(c) =>
             LET b == batches[c]
             IN \A i \in 1..Len(b.fetch) :
                  (\A j \in (i + 1)..Len(b.fetch) :
                     b.fetch[j].contentid # b.fetch[i].contentid)
                    => /\ b.fetch[i].contentid \in DOMAIN batches'[c].petInfoMap
                       /\ batches'[c].petInfoMap[b.fetch[i].contentid] = b.results[i] ]_vars

\* a batch has returned a map with the no-data marker for an identifier the
\* service holds a record of, and with the records of its other identifiers
C14_Witness ==
  \E c \in Instances :
    LET b == batches[c]
    IN /\ b.phase = "returned"
       /\ Len(b.items) > 20
       /\ \E id \in DOMAIN b.petInfoMap :
            /\ b.petInfoMap[id] = NoInfo
            /\ getDetailPetTour(id) # NoInfo
            /\ \A other \in (DOMAIN b.petInfoMap) \ {id} :
                 b.petInfoMap[other] = getDetailPetTour(other)

\* C15: a cache entry, once made, is never overwritten or removed.
C15_CacheAppendOnly ==
  [][ \A id \in DOMAIN petInfoCache :
        /\ id \in DOMAIN petInfoCache'
        /\ petInfoCache'[id] = petInfoCache[id] ]_vars

\* tag is a substring of size
IsSubstring(tag, size) ==
  \E from \in 1..(Len(size) + 1), to \in 0..Len(size) : SubSeq(size, from, to) = tag

\* C16: with the pet filter a record is kept exactly when the map holds a
\* record for it that is not the no-data marker, its accompaniment value is
\* one of the allowed ones and, if size tags are selected, its size value
\* contains one of them; without the pet filter every record is kept.
C16_PetFilterKeeps ==
  \A c \in Instances :
    LET b == batches[c]
        Keeps(it) ==
          /\ it.contentid \in DOMAIN b.petInfoMap
          /\ b.petInfoMap[it.contentid] # NoInfo
          /\ b.petInfoMap[it.contentid].chkpetleash \in {"ganeung", "Y", "yes"}
          /\ \/ Len(b.petSizes) = 0
             \/ \E k \in 1..Len(b.petSizes) :
                  IsSubstring(b.petSizes[k], b.petInfoMap[it.contentid].chkpetsize)
    IN b.phase = "returned" =>
         b.kept = IF b.petFriendly THEN SelectSeq(b.items, Keeps) ELSE b.items

\* the pet filter with the size tag for small has kept a record whose size
\* value contains the tag and dropped an allowed record whose size value is
\* the tag for large
C16_Witness ==
  \E c \in Instances :
    LET b == batches[c]
    IN /\ b.phase = "returned"
       /\ b.petFriendly
       /\ b.petSizes = <<SMALL>>
       /\ \E i \in 1..Len(b.kept) :
            IsSubstring(SMALL, b.petInfoMap[b.kept[i].contentid].chkpetsize)
       /\ \E i \in 1..Len(b.items) :
            /\ b.items[i].contentid \in DOMAIN b.petInfoMap
            /\ b.petInfoMap[b.items[i].contentid] = Info("Y", LARGE)
            /\ b.items[i] \notin SeqToSet(b.kept)

\* C30: whenever loading has settled and the render has been committed, the
\* list last handed to the parent through onToursChange is the visible list,
\* also when the visible list is empty.
C30_ParentHasVisibleList ==
  (Settled /\ Rendered) => forwarded = tours

\* the records the last load-more appended
Appended == SubSeq(tours, Len(tours) - toursSrc[Len(toursSrc)].length + 1, Len(tours))

\* C28: a load-more issues no pet lookup and leaves petInfoCache and
\* petInfoMap as they are, and it appends every record of the fetched page
\* that passes the category filter, whether or not the pet filter is on.
C28_LoadMoreSkipsPetStep ==
  [][ /\ lastOp' \in {"loadMore", "loadMoreOk", "loadMoreFail"}
        => UNCHANGED <<petInfoCache, petInfoMap, isLoadingPetInfo>>
      /\ \A i \in 1..Len(moreReqs) :
           Resolves(i, "loadMoreOk") =>
             LET r == moreReqs[i]
                 page == ListingResponse(r.filters, r.searchKeyword, r.page)
                 passes(it) ==
                   \/ Len(r.filters.contentTypeIds) = 0
                   \/ \E k \in 1..Len(r.filters.contentTypeIds) :
                        r.filters.contentTypeIds[k] = it.contenttypeid
                 added == SubSeq(tours', Len(tours) + 1, Len(tours'))
             IN /\ SeqToSet(added) = {it \in SeqToSet(page) : passes(it)}
                /\ Len(added) = Cardinality(SeqToSet(added)) ]_vars

\* a load-more made with the pet filter on has appended a record that the
\* service holds no pet record for
C28_Witness ==
  /\ lastOp = "loadMoreOk"
  /\ toursSrc[Len(toursSrc)].filters.petFriendly
  /\ \E i \in 1..Len(Appended) : getDetailPetTour(Appended[i].contentid) = NoInfo

\* C29: isLoadingRef is true exactly while an initial load is in flight;
\* every initial load that starts settles, with isLoading and isLoadingRef
\* false again; a filter or search change made when no initial load is in
\* flight starts one.
C29_InitialLoadSettles ==
  /\ [](isLoadingRef <=> initReq # <<>>)
  /\ (initReq # <<>>) ~> (initReq = <<>> /\ ~isLoading /\ ~isLoadingRef)
  /\ [][ ((filters' # filters \/ searchKeyword' # searchKeyword) /\ initReq = <<>>)
           => /\ isLoadingRef'
              /\ initReq' = << Request(filters', searchKeyword') >> ]_vars

\* an initial load started by a filter or search change has settled
C29_Witness ==
  /\ lastOp \in {"fetchToursListingOk", "fetchPetInfosSettle", "fetchToursFail"}
  /\ changes > 0
  /\ initReq = <<>>
  /\ ~isLoadingRef
  /\ ~isLoading
  /\ (error = NULL => toursSrc = << Segment(tours, filters, searchKeyword) >>)
  /\ (filters # DefaultFilters \/ searchKeyword # <<>>)

----------------------------------------------------------------------------
(* The remote-call layer, lib/api/tour-api.ts: callApi and retryApiCall.   *)
(* A response body is a sequence of characters and lexemes.                *)

MAX_RETRIES == 3

RETRY_DELAYS == <<1000, 2000, 4000>>

\* String.prototype.startsWith
StartsWith(s, prefix) ==
  Len(s) >= Len(prefix) /\ SubSeq(s, 1, Len(prefix)) = prefix

QUOTE == "\""

\* the order JSON.stringify writes the members of the documents in
MemberOrder == <<"response", "header", "resultCode", "resultMsg", "body">>

\* JSON.stringify
RECURSIVE Stringify(_)
RECURSIVE Members(_, _)
Members(f, i) ==
  IF i > Len(MemberOrder) THEN <<>>
  ELSE (IF MemberOrder[i] \in DOMAIN f
          THEN <<QUOTE, MemberOrder[i], QUOTE, ":">> \o Stringify(f[MemberOrder[i]]) \o <<",">>
          ELSE <<>>) \o Members(f, i + 1)

Stringify(v) ==
  CASE v.t = "null"   -> <<"null">>
    [] v.t = "number" -> <<"5">>
    [] v.t = "string" -> <<QUOTE, v.v, QUOTE>>
    [] v.t = "object" -> <<"{">> \o Members(v.f, 1) \o <<"}">>

EmptyObject == JObj([n \in {} |-> JNull])

\* { response: { header: { resultCode, resultMsg }, body: {} } }
Envelope(resultCode, resultMsg) ==
  JObj("response" :> JObj(("header" :> JObj(("resultCode" :> JStr(resultCode))
                                            @@ ("resultMsg" :> JStr(resultMsg))))
                          @@ ("body" :> EmptyObject)))

\* the JSON documents the service sends
JsonDocs ==
  { JNull, JNum, EmptyObject,
    JObj("response" :> JNull),
    JObj("response" :> JNum),
    JObj("response" :> EmptyObject),
    JObj("response" :> JObj("header" :> JNull)),
    JObj("response" :> JObj("header" :> JObj("resultMsg" :> JStr("ERROR")))),
    Envelope("0000", "OK"),
    Envelope("0001", "LIMITED"),
    Envelope("00", "NORMAL") }

\* JSON.parse: the document the text is the serialisation of, or a
\* SyntaxError
JSONparse(text) ==
  LET docs == {v \in JsonDocs : Stringify(v) = Trim(text)}
  IN IF docs = {} THEN [ok |-> FALSE, value |-> Undefined]
                  ELSE [ok |-> TRUE, value |-> CHOOSE v \in docs : TRUE]

\* the bodies the service sends: nothing, white space, an HTML error page,
\* plain text, and the JSON documents with or without white space around
Texts ==
  { <<>>, <<SPACE, SPACE>>, <<SPACE, "<", "!", "html">>, <<"Service", SPACE, "down">> }
  \cup {Stringify(v) : v \in JsonDocs}
  \cup {<<SPACE>> \o Stringify(Envelope("0000", "OK")) \o <<SPACE>>}

Statuses == {200, 404, 429, 500}

NetworkFailure == [kind |-> "network", status |-> 0, text |-> <<>>]

\* the AbortController fires after DEFAULT_TIMEOUT
Timeout == [kind |-> "timeout", status |-> 0, text |-> <<>>]

Response(status, text) == [kind |-> "response", status |-> status, text |-> text]

\* how one fetch can end
Outcomes ==
  {NetworkFailure, Timeout} \cup {Response(st, tx) : st \in Statuses, tx \in Texts}

TourApiKeyError ==
  [TourApiError("API key missing", "", 0, Undefined) EXCEPT !.class = "TourApiKeyError"]

TourApiRateLimitError ==
  [TourApiError("rate limit", "", 429, Undefined) EXCEPT !.class = "TourApiRateLimitError"]

TourApiNetworkError(message) ==
  [TourApiError(message, "", 0, Undefined) EXCEPT !.class = "TourApiNetworkError"]

\* the TypeError of the `in` operator applied to a value that is not an
\* object, and of a property read of null
TypeError ==
  [class |-> "TypeError", statusCode |-> 0, message |-> "TypeError",
   detail |-> "", responseData |-> Undefined]

\* error instanceof TourApiError
InstanceOfTourApiError(e) ==
  e.class \in {"TourApiError", "TourApiKeyError", "TourApiRateLimitError",
               "TourApiNetworkError"}

Returns(data) == [ok |-> TRUE, data |-> data, error |-> NoError]

Throws(e) == [ok |-> FALSE, data |-> Undefined, error |-> e]

\* response.ok
Ok(status) == status >= 200 /\ status <= 299

\* name in v, for a v that is an object
HasMember(v, name) == name \in DOMAIN v.f

\* v[name] in a template literal or a comparison: the string or "undefined"
Member(v, name) ==
  IF v.t = "object" /\ name \in DOMAIN v.f /\ v.f[name].t = "string"
    THEN v.f[name].v ELSE "undefined"

ResultCodeOk_Any(resultCode) == TRUE

\* !(resultCode !== "0000")
ResultCodeOk(resultCode) == resultCode = "0000"

\* the checks of the envelope and of the result code, lines 312-347
CheckEnvelope(status, data) ==
  IF data.t # "object" \/ ~HasMember(data, "response")
    THEN Throws(TourApiError("bad format", "", status, data))
  ELSE IF data.f.response.t # "object"
    THEN Throws(TypeError)
  ELSE IF ~HasMember(data.f.response, "header")
    THEN Throws(TourApiError("bad format", "", status, data))
  ELSE IF data.f.response.f.header.t = "null"
    THEN Throws(TypeError)
  ELSE IF ~ResultCodeOk(Member(data.f.response.f.header, "resultCode"))
    THEN Throws(TourApiError("API error",
                             Member(data.f.response.f.header, "resultMsg"),
                             status, data))
  ELSE Returns(data)

\* one run of the function callApi hands to retryApiCall, given how its
\* fetch ends
Attempt(o) ==
  IF o.kind = "timeout" THEN Throws(TourApiNetworkError("timed out"))
  ELSE IF o.kind = "network" THEN Throws(TourApiNetworkError("network error"))
  ELSE IF o.status = 429 THEN Throws(TourApiRateLimitError)
  ELSE IF Len(Trim(o.text)) = 0
    THEN Throws(TourApiError("empty response", "", o.status, JNull))
  ELSE IF StartsWith(Trim(o.text), <<"<", "!">>)
    THEN Throws(TourApiError("HTML response", "", o.status, JStr("text")))
  ELSE IF ~JSONparse(o.text).ok
    THEN Throws(TourApiError("cannot parse", "", o.status, JStr("text")))
  ELSE IF ~Ok(o.status)
    THEN Throws(TourApiError("call failed", "", o.status, JSONparse(o.text).value))
  ELSE CheckEnvelope(o.status, JSONparse(o.text).value)

Rethrown_KeyErrorOnly(e) == e.class = "TourApiKeyError"

\* retryApiCall: the errors it throws again without a retry
Rethrown(e) ==
  \/ e.class = "TourApiKeyError"
  \/ e.class = "TourApiRateLimitError"
  \/ InstanceOfTourApiError(e) /\ e.statusCode # 0 /\ e.statusCode < 500

RetryExhausted_Late(retryCount) == retryCount > MAX_RETRIES

\* retryApiCall: retryCount >= MAX_RETRIES
RetryExhausted(retryCount) == retryCount >= MAX_RETRIES

\* RETRY_DELAYS[retryCount] || RETRY_DELAYS[RETRY_DELAYS.length - 1]
RetryDelay(retryCount) ==
  IF retryCount + 1 <= Len(RETRY_DELAYS) THEN RETRY_DELAYS[retryCount + 1]
                                         ELSE RETRY_DELAYS[Len(RETRY_DELAYS)]

\* the fetch fails or the response has a server-error status
Transient(o) == o.kind \in {"network", "timeout"} \/ o.status >= 500

otherVars ==
  <<filters, searchKeyword, tours, pageNo, hasMore, isLoadingMore, petInfoMap,
    isLoading, isLoadingPetInfo, error, isLoadingRef, petInfoCache, view,
    initReq, moreReqs, toursSrc, changes, loadMores, batches, forwarded, coord>>

\* callApi: buildApiUrl throws when the key is missing; otherwise
\* retryApiCall runs the function for the first time
callApi(hasKey) ==
  /\ api.phase \in {"idle", "returned", "thrown"}
  /\ api' = IF hasKey
              THEN [IdleCall EXCEPT !.phase = "fetching", !.attempts = 1]
              ELSE [IdleCall EXCEPT !.phase = "thrown", !.hasKey = FALSE,
                                    !.error = TourApiKeyError]
  /\ lastOp' = "callApi"
  /\ UNCHANGED otherVars

\* the fetch of the running attempt ends: the function returns, or
\* retryApiCall catches what it throws
attemptSettles(o) ==
  /\ api.phase = "fetching"
  /\ LET res == Attempt(o)
         seen == [api EXCEPT !.outcome = o, !.error = res.error,
                             !.transient = api.transient /\ Transient(o)]
     IN api' =
          IF res.ok
            THEN [seen EXCEPT !.phase = "returned", !.data = res.data]
          ELSE IF Rethrown(res.error) \/ RetryExhausted(api.retryCount)
            THEN [seen EXCEPT !.phase = "thrown"]
          ELSE [seen EXCEPT !.phase = "waiting",
                            !.delays = Append(@, RetryDelay(api.retryCount))]
  /\ lastOp' = "attemptSettles"
  /\ UNCHANGED otherVars

\* the delay is over: retryApiCall(fn, retryCount + 1)
delayElapsed ==
  /\ api.phase = "waiting"
  /\ api' = [api EXCEPT !.phase = "fetching", !.retryCount = @ + 1,
                        !.attempts = @ + 1]
  /\ lastOp' = "delayElapsed"
  /\ UNCHANGED otherVars

ApiNext ==
  \/ \E hasKey \in BOOLEAN : callApi(hasKey)
  \/ \E o \in Outcomes : attemptSettles(o)
  \/ delayElapsed

ApiSpec == Init /\ [][ApiNext]_vars

\* every fetch ends, by the timeout at the latest, and every timer fires
ApiLiveSpec ==
  /\ ApiSpec
  /\ WF_vars(\E o \in Outcomes : attemptSettles(o))
  /\ WF_vars(delayElapsed)

----------------------------------------------------------------------------
(* Properties of the remote-call layer *)

InFlight == api.phase \in {"fetching", "waiting"}

Ended == api.phase \in {"returned", "thrown"}

\* the running attempt settles in this step
Settles == api.phase = "fetching" /\ api'.phase # "fetching"

\* C21: a call whose every attempt fails with a network or timeout error or
\* with a server-error status terminates: it makes exactly 4 attempts, waits
\* 1000, 2000 and 4000 ms before the 2nd, 3rd and 4th attempt, and throws
\* the error of the last attempt; no call makes more than 4 attempts
C21_TransientFailuresExhaust ==
  /\ [](api.attempts <= 4)
  /\ []((InFlight /\ api.transient) =>
          /\ api.delays = SubSeq(<<1000, 2000, 4000>>, 1, Len(api.delays))
          /\ Len(api.delays) = IF api.phase = "waiting" THEN api.attempts
                                                        ELSE api.attempts - 1)
  /\ []((api.phase = "thrown" /\ api.hasKey /\ api.transient) =>
          /\ api.attempts = 4
          /\ api.delays = <<1000, 2000, 4000>>
          /\ api.error = Attempt(api.outcome).error)
  /\ [][(Settles /\ api.transient /\ Transient(api'.outcome)) =>
          api'.phase = (IF api.attempts = 4 THEN "thrown" ELSE "waiting")]_vars
  /\ (InFlight ~> Ended)

C21_Witness ==
  /\ api.phase = "thrown"
  /\ api.transient
  /\ api.attempts = 4
  /\ api.outcome = Response(500, <<>>)
  /\ api.error.statusCode = 500

\* the errors the retry policy names as not retryable: a rate-limit response
\* and every error that carries an HTTP status below 500
NotRetryable(o) ==
  \/ o.kind = "response" /\ o.status = 429
  \/ ~Attempt(o).ok /\ Attempt(o).error.statusCode > 0
                    /\ Attempt(o).error.statusCode < 500

\* C22: a missing credential throws the configuration error before any
\* request is made; a rate-limit response or an error with a status below
\* 500 ends the call at that attempt, with no delay and no further attempt
C22_NonRetryableNotRetried ==
  /\ [](~api.hasKey =>
          /\ api.phase = "thrown"
          /\ api.error = TourApiKeyError
          /\ api.attempts = 0
          /\ api.delays = <<>>)
  /\ [][(Settles /\ NotRetryable(api'.outcome)) =>
          /\ api'.phase = "thrown"
          /\ api'.error = Attempt(api'.outcome).error
          /\ api'.attempts = api.attempts
          /\ api'.delays = api.delays]_vars
  /\ []((api.phase = "thrown" /\ api.hasKey /\ api.retryCount = 0) =>
          api.attempts = 1 /\ api.delays = <<>>)

C22_Witness ==
  /\ api.phase = "thrown"
  /\ api.outcome.status = 429
  /\ api.error = TourApiRateLimitError
  /\ api.attempts = 1
  /\ api.delays = <<>>

\* a response body that is empty, is not JSON, or lacks the envelope: no
\* response member, a response that is null or not an object, or no header
Malformed(o) ==
  /\ o.kind = "response"
  /\ \/ Len(Trim(o.text)) = 0
     \/ ~JSONparse(o.text).ok
     \/ LET data == JSONparse(o.text).value
        IN \/ data.t # "object"
           \/ ~HasMember(data, "response")
           \/ data.f.response.t # "object"
           \/ ~HasMember(data.f.response, "header")

\* C23: a malformed response is thrown as an error at the attempt that
\* received it, whatever its HTTP status; it is never retried
C23_MalformedNotRetried ==
  [][(Settles /\ Malformed(api'.outcome)) =>
       /\ api'.phase = "thrown"
       /\ api'.attempts = api.attempts
       /\ api'.delays = api.delays]_vars

\* the response holds an envelope whose header is an object
HasEnvelope(o) ==
  /\ o.kind = "response"
  /\ JSONparse(o.text).ok
  /\ ~Malformed(o)
  /\ JSONparse(o.text).value.f.response.f.header.t = "object"

Header(o) == JSONparse(o.text).value.f.response.f.header

\* the error carries the resultMsg of the envelope, in its message or in
\* its responseData
CarriesResultMsg(e, o) ==
  \/ e.message = "API error" /\ e.detail = Member(Header(o), "resultMsg")
  \/ e.responseData = JSONparse(o.text).value

\* C24 as stated: data is returned only when resultCode is "0000", and any
\* other resultCode throws, at that attempt, an error carrying resultMsg
C24_AnyStatus ==
  /\ [](api.phase = "returned" =>
          /\ HasEnvelope(api.outcome)
          /\ Member(Header(api.outcome), "resultCode") = "0000")
  /\ [][(Settles /\ HasEnvelope(api'.outcome)
                 /\ Member(Header(api'.outcome), "resultCode") # "0000") =>
          /\ api'.phase = "thrown"
          /\ CarriesResultMsg(api'.error, api'.outcome)
          /\ api'.delays = api.delays]_vars

\* C24: data is returned only when resultCode is "0000"; in a response with
\* a successful HTTP status any other resultCode throws, at that attempt, the
\* application error whose message holds resultMsg, and no retry follows
C24_ResultCodeGate ==
  /\ [](api.phase = "returned" =>
          /\ HasEnvelope(api.outcome)
          /\ Ok(api.outcome.status)
          /\ Member(Header(api.outcome), "resultCode") = "0000"
          /\ api.data = JSONparse(api.outcome.text).value)
  /\ [][(Settles /\ HasEnvelope(api'.outcome) /\ Ok(api'.outcome.status)
                 /\ Member(Header(api'.outcome), "resultCode") # "0000") =>
          /\ api'.phase = "thrown"
          /\ api'.error.class = "TourApiError"
          /\ api'.error.message = "API error"
          /\ api'.error.detail = Member(Header(api'.outcome), "resultMsg")
          /\ api'.attempts = api.attempts
          /\ api'.delays = api.delays]_vars

C24_Witness ==
  /\ api.phase = "thrown"
  /\ api.outcome = Response(200, Stringify(Envelope("0001", "LIMITED")))
  /\ api.error.message = "API error"
  /\ api.error.detail = "LIMITED"
  /\ api.attempts = 1

----------------------------------------------------------------------------
(* lib/utils/coordinate.ts: convertKATECToWGS84.  Numbers are exact        *)
(* fractions; the rounding of floating-point division is left out.         *)

DECIMAL_DIGITS == <<"0", "1", "2", "3", "4", "5", "6", "7", "8", "9">>

IsDigit(c) == \E d \in 1..Len(DECIMAL_DIGITS) : DECIMAL_DIGITS[d] = c

DigitValue(c) == (CHOOSE d \in 1..Len(DECIMAL_DIGITS) : DECIMAL_DIGITS[d] = c) - 1

\* the number of digits of s from position i on
RECURSIVE CountDigits(_, _)
CountDigits(s, i) ==
  IF i <= Len(s) /\ IsDigit(s[i]) THEN 1 + CountDigits(s, i + 1) ELSE 0

\* the value of the n digits of s from position i on
RECURSIVE DigitsValue(_, _, _)
DigitsValue(s, i, n) ==
  IF n = 0 THEN 0 ELSE DigitsValue(s, i, n - 1) * 10 + DigitValue(s[i + n - 1])

RECURSIVE Pow10(_)
Pow10(n) == IF n = 0 THEN 1 ELSE 10 * Pow10(n - 1)

\* parseFloat: leading white space is skipped and the longest prefix that is
\* a decimal literal (sign, digits, point, digits) is the value; NaN when
\* there is none.  The inputs hold no exponent part.
parseFloat(chars) ==
  LET t == TrimStart(chars)
      signed == t # <<>> /\ t[1] \in {"-", "+"}
      start == IF signed THEN 2 ELSE 1
      ni == CountDigits(t, start)
      point == start + ni <= Len(t) /\ t[start + ni] = "."
      nf == IF point THEN CountDigits(t, start + ni + 1) ELSE 0
      magnitude == DigitsValue(t, start, ni) * Pow10(nf)
                   + DigitsValue(t, start + ni + 1, nf)
  IN IF ni + nf = 0 THEN NaN
     ELSE Num(IF signed /\ t[1] = "-" THEN 0 - magnitude ELSE magnitude, Pow10(nf))

\* comparisons of a fraction with an integer
Floor(q) == q.num \div q.den
Lt(q, n) == Floor(q) < n
Le(q, n) == Floor(q) < n \/ (Floor(q) = n /\ q.num % q.den = 0)
Ge(q, n) == ~Lt(q, n)
Gt(q, n) == ~Le(q, n)

\* the least value a fixed-point encoded coordinate exceeds
KATEC_MIN == 1000000

\* the divisor of a fixed-point encoded coordinate
KATEC_SCALE == 10000000

IsWGS84_Exclusive(x, y) == Gt(x, 124) /\ Lt(x, 132) /\ Gt(y, 33) /\ Lt(y, 43)

\* x >= 124 && x <= 132 && y >= 33 && y <= 43
IsWGS84(x, y) == Ge(x, 124) /\ Le(x, 132) /\ Ge(y, 33) /\ Le(y, 43)

\* x > 1000000 && y > 1000000
IsKATEC(x, y) == Gt(x, KATEC_MIN) /\ Gt(y, KATEC_MIN)

ToDegrees_Unscaled(v) == v

\* v / 10000000
ToDegrees(v) == Num(v.num, v.den * KATEC_SCALE)

\* the range check of the converted pair, and the result
Validate(lng, lat) ==
  IF Lt(lng, 124) \/ Gt(lng, 132) \/ Lt(lat, 33) \/ Gt(lat, 43)
    THEN NoPosition
    ELSE Position(lng, lat)

\* !mapx || mapx === "0"
Unusable(arg) == ~arg.given \/ arg.chars = <<>> \/ arg.chars = <<"0">>

\* the body of the try block
Convert(mapx, mapy) ==
  IF Unusable(mapx) \/ Unusable(mapy) THEN NoPosition
  ELSE LET x == parseFloat(mapx.chars)
           y == parseFloat(mapy.chars)
       IN IF x.nan \/ y.nan THEN NoPosition
          ELSE IF IsWGS84(x, y) THEN Validate(x, y)
          ELSE IF IsKATEC(x, y) THEN Validate(ToDegrees(x), ToDegrees(y))
          ELSE NoPosition

\* the strings handed to the normaliser
CoordStrings ==
  { <<>>, <<"0">>, <<"a", "b", "c">>, <<"1", "2", "7", "x">>,
    <<"1", "2", "6", ".", "9">>, <<"1", "2", "4">>, <<"1", "3", "2">>,
    <<"1", "3", "2", ".", "0", "1">>, <<"3", "7", ".", "5">>,
    <<"3", "3">>, <<"4", "3">>, <<SPACE, "3", "7">>, <<"-", "1", "2", "7">>,
    <<"1", "2", "6", "9", "7", "8", "0", "0", "0", "0">>,
    <<"3", "7", "5", "6", "6", "5", "0", "0", "0">>,
    <<"1", "3", "2", "0", "0", "0", "0", "0", "0", "1">>,
    <<"1", "0", "0", "0", "0", "0", "0">> }

CoordInputs == {Missing} \cup {Arg(chars) : chars \in CoordStrings}

nonCoordVars ==
  <<filters, searchKeyword, tours, pageNo, hasMore, isLoadingMore, petInfoMap,
    isLoading, isLoadingPetInfo, error, isLoadingRef, petInfoCache, view,
    initReq, moreReqs, toursSrc, changes, loadMores, batches, forwarded, api>>

\* nothing in the try block throws, so the catch clause does not run
convertKATECToWGS84(mapx, mapy) ==
  /\ coord' = [called |-> TRUE, mapx |-> mapx, mapy |-> mapy,
               result |-> Convert(mapx, mapy), threw |-> FALSE]
  /\ lastOp' = "convertKATECToWGS84"
  /\ UNCHANGED nonCoordVars

CoordNext == \E mapx \in CoordInputs, mapy \in CoordInputs : convertKATECToWGS84(mapx, mapy)

CoordSpec == Init /\ [][CoordNext]_vars

----------------------------------------------------------------------------
(* Properties of the normaliser *)

\* both arguments are strings that parse to numbers
Parsed == coord.called /\ coord.mapx.given /\ coord.mapy.given
          /\ ~parseFloat(coord.mapx.chars).nan /\ ~parseFloat(coord.mapy.chars).nan

X == parseFloat(coord.mapx.chars)
Y == parseFloat(coord.mapy.chars)

\* longitude 124..132 and latitude 33..43, bounds included
InBox(lng, lat) ==
  /\ ~lng.nan /\ ~lat.nan
  /\ Ge(lng, 124) /\ Le(lng, 132) /\ Ge(lat, 33) /\ Le(lat, 43)

RECURSIVE GCD(_, _)
GCD(a, b) == IF b = 0 THEN a ELSE GCD(b, a % b)

\* the fraction in lowest terms
Reduce(q) == Num(q.num \div GCD(q.num, q.den), q.den \div GCD(q.num, q.den))

\* C25: when the parsed values lie in the box, bounds included, the
\* normaliser returns exactly those values
C25_InBoxUnchanged ==
  (Parsed /\ InBox(X, Y)) => coord.result = Position(X, Y)

C25_Witness ==
  /\ coord.called
  /\ coord.mapx = Arg(<<"1", "3", "2">>)
  /\ coord.mapy = Arg(<<"3", "3">>)
  /\ coord.result = Position(Num(132, 1), Num(33, 1))

\* C26: when both parsed values exceed 1,000,000 the result is the pair
\* divided by 10,000,000 if that pair lies in the box, and null otherwise;
\* ("1269780000", "375665000") gives 126.978 and 37.5665
C26_FixedPointScaled ==
  /\ (Parsed /\ Gt(X, 1000000) /\ Gt(Y, 1000000)) =>
       LET lng == Num(X.num, X.den * 10000000)
           lat == Num(Y.num, Y.den * 10000000)
       IN /\ InBox(lng, lat) => coord.result = Position(lng, lat)
          /\ ~InBox(lng, lat) => coord.result = NoPosition
  /\ (/\ coord.called
      /\ coord.mapx = Arg(<<"1", "2", "6", "9", "7", "8", "0", "0", "0", "0">>)
      /\ coord.mapy = Arg(<<"3", "7", "5", "6", "6", "5", "0", "0", "0">>)) =>
       /\ ~coord.result.isNull
       /\ Reduce(coord.result.lng) = Reduce(Num(126978, 1000))
       /\ Reduce(coord.result.lat) = Reduce(Num(375665, 10000))

C26_Witness ==
  /\ coord.called
  /\ coord.mapx = Arg(<<"1", "2", "6", "9", "7", "8", "0", "0", "0", "0">>)
  /\ coord.mapy = Arg(<<"3", "7", "5", "6", "6", "5", "0", "0", "0">>)
  /\ ~coord.result.isNull

\* the string is a decimal number from its first to its last character
RECURSIVE AllNumeric(_, _)
AllNumeric(s, i) ==
  i > Len(s) \/ ((IsDigit(s[i]) \/ s[i] \in {".", "-", "+"}) /\ AllNumeric(s, i + 1))

IsNumeric(arg) ==
  arg.given /\ ~parseFloat(arg.chars).nan /\ AllNumeric(Trim(arg.chars), 1)

\* C27: the normaliser does not throw; the result is null when an argument
\* is empty, missing, "0" or not numeric, when the magnitudes match neither
\* pattern, and when the converted pair is outside the box; every result
\* that is not null lies in the box
C27_InvalidGivesNull ==
  coord.called =>
    /\ ~coord.threw
    /\ (Unusable(coord.mapx) \/ Unusable(coord.mapy)) => coord.result.isNull
    /\ (~IsNumeric(coord.mapx) \/ ~IsNumeric(coord.mapy)) => coord.result.isNull
    /\ (Parsed /\ ~InBox(X, Y) /\ ~(Gt(X, 1000000) /\ Gt(Y, 1000000))) =>
         coord.result.isNull
    /\ ~coord.result.isNull => InBox(coord.result.lng, coord.result.lat)

====
